---- MODULE Spec2Model ----
(***************************************************************************)
(* Tag-versioning engine of esh-cli (pkg/utils): tag validation, release   *)
(* and hotfix increment, and selection of the latest tag from the output   *)
(* of `git tag --list -n1`.                                                *)
(*                                                                         *)
(* A Go string is modelled as a sequence of one-character strings, so that *)
(* strings.Split, strconv.Atoi, strconv.Itoa, fmt.Sprintf and the regular  *)
(* expressions are computed character by character as the code does.       *)
(***************************************************************************)
EXTENDS Integers, Sequences, FiniteSets, TLC

VARIABLES
    op,          \* the engine function called last ("none" before any call)
    tag,         \* its tag argument
    hotFix,      \* its hotFix argument
    valid,       \* result of IsTagValid
    newTag,      \* result of IncrementTag
    tagEnv,      \* result of GetEnvFromTag: [env, err]
    stdout,      \* what `git tag --list -n1 <pattern>` printed
    cmdFailed,   \* whether that command failed
    found,       \* result of FindLastTagAndCommentInDir: [tag, comment, err]
    args,        \* arguments of a call of a semantic-version function
    ret          \* what that call returned

vars ==
    <<op, tag, hotFix, valid, newTag, tagEnv, stdout, cmdFailed, found, args, ret>>

----------------------------------------------------------------------------
(* Bounds of the explored inputs.                                          *)

MaxRelease == 10      \* release counters 0..MaxRelease in generated tags
MaxHotfix == 2        \* hotfix counters 0..MaxHotfix in generated tags
MaxPrefixSegs == 3    \* '_'-separated segments before the version segment
MaxLines == 3         \* lines of tag-list output given to the selector
MaxComponent == 1     \* version components 0..MaxComponent in generated versions
MaxCommits == 3       \* commit messages given to the classifier
MaxExisting == 2      \* tags in the repository when a command runs

----------------------------------------------------------------------------
(* Go string primitives.                                                   *)

Digits == {"0", "1", "2", "3", "4", "5", "6", "7", "8", "9"}

DigitSeq == <<"0", "1", "2", "3", "4", "5", "6", "7", "8", "9">>

DigitVal(c) == (CHOOSE i \in 1..10 : DigitSeq[i] = c) - 1

\* unicode.IsSpace restricted to the characters the model uses
Space == {" ", "\t", "\n", "\r"}

Contains(s, c) == \E i \in 1..Len(s) : s[i] = c

\* index of the first occurrence of c in s (0 when absent)
IndexOf(s, c) ==
    IF Contains(s, c)
    THEN CHOOSE i \in 1..Len(s) : s[i] = c /\ \A j \in 1..(i - 1) : s[j] # c
    ELSE 0

\* strings.Split(s, sep) for a one-character separator
RECURSIVE Split(_, _)
Split(s, sep) ==
    LET i == IndexOf(s, sep) IN
    IF i = 0 THEN <<s>>
    ELSE <<SubSeq(s, 1, i - 1)>> \o Split(SubSeq(s, i + 1, Len(s)), sep)

\* strings.SplitN(s, sep, 2)
SplitN2(s, sep) ==
    LET i == IndexOf(s, sep) IN
    IF i = 0 THEN <<s>>
    ELSE <<SubSeq(s, 1, i - 1), SubSeq(s, i + 1, Len(s))>>

\* strings.Join(parts, sep)
RECURSIVE Join(_, _)
Join(parts, sep) ==
    IF Len(parts) = 0 THEN <<>>
    ELSE IF Len(parts) = 1 THEN parts[1]
    ELSE parts[1] \o sep \o Join(Tail(parts), sep)

\* strings.TrimSpace
RECURSIVE TrimLeft(_)
TrimLeft(s) ==
    IF Len(s) > 0 /\ s[1] \in Space THEN TrimLeft(Tail(s)) ELSE s

RECURSIVE TrimRight(_)
TrimRight(s) ==
    IF Len(s) > 0 /\ s[Len(s)] \in Space
    THEN TrimRight(SubSeq(s, 1, Len(s) - 1)) ELSE s

TrimSpace(s) == TrimRight(TrimLeft(s))

\* \d+ anchored at both ends
IsDigits(s) == Len(s) > 0 /\ \A i \in 1..Len(s) : s[i] \in Digits

RECURSIVE DigitsValue(_)
DigitsValue(s) ==
    IF Len(s) = 0 THEN 0
    ELSE 10 * DigitsValue(SubSeq(s, 1, Len(s) - 1)) + DigitVal(s[Len(s)])

\* strconv.Atoi: an optional sign followed by decimal digits
Atoi(s) ==
    LET signed == Len(s) > 0 /\ s[1] \in {"+", "-"}
        body == IF signed THEN Tail(s) ELSE s
    IN IF ~IsDigits(body) THEN [ok |-> FALSE, val |-> 0]
       ELSE [ok |-> TRUE,
             val |-> IF signed /\ s[1] = "-" THEN 0 - DigitsValue(body)
                     ELSE DigitsValue(body)]

RECURSIVE NatDigits(_)
NatDigits(n) ==
    IF n < 10 THEN <<DigitSeq[n + 1]>>
    ELSE NatDigits(n \div 10) \o <<DigitSeq[(n % 10) + 1]>>

\* strconv.Itoa
Itoa(n) == IF n < 0 THEN <<"-">> \o NatDigits(0 - n) ELSE NatDigits(n)

----------------------------------------------------------------------------
(* Package-level data of pkg/utils.                                        *)

dev == <<"d", "e", "v">>
mimic2 == <<"m", "i", "m", "i", "c", "2">>
stg6 == <<"s", "t", "g", "6">>
demo == <<"d", "e", "m", "o">>
production2 == <<"p", "r", "o", "d", "u", "c", "t", "i", "o", "n", "2">>

ENVS == <<dev, mimic2, stg6, demo, production2>>

\* VersionPattern.MatchString: ^(\d+)\.(\d+)\.(\d+)$
VersionPattern(s) ==
    \E i \in 1..Len(s), j \in 1..Len(s) :
        /\ i < j
        /\ IsDigits(SubSeq(s, 1, i - 1))
        /\ s[i] = "."
        /\ IsDigits(SubSeq(s, i + 1, j - 1))
        /\ s[j] = "."
        /\ IsDigits(SubSeq(s, j + 1, Len(s)))

\* ReleasePattern.MatchString: ^(\d+)$
ReleasePattern(s) == IsDigits(s)

\* ReleasePatternWithHotFix.MatchString: ^(\d+).(\d+)$ -- the dot is not
\* escaped, so it stands for any one character other than a newline
ReleasePatternWithHotFix(s) ==
    \E i \in 1..Len(s) :
        /\ IsDigits(SubSeq(s, 1, i - 1))
        /\ s[i] # "\n"
        /\ IsDigits(SubSeq(s, i + 1, Len(s)))

ContainsString(slice, str) == \E i \in 1..Len(slice) : slice[i] = str

----------------------------------------------------------------------------
(* The engine functions.                                                   *)

IsTagValid(t) ==
    LET parts == Split(t, "_") IN
    IF Len(parts) < 2 THEN FALSE
    ELSE
      LET env == IF Len(parts) = 3 THEN parts[2] ELSE parts[1]
          versionPart == parts[Len(parts)]
          versionReleaseParts == Split(versionPart, "-")
      IN IF ~ContainsString(ENVS, env) THEN FALSE
         ELSE IF Len(versionReleaseParts) = 1
              THEN VersionPattern(versionReleaseParts[1])
         ELSE IF Len(versionReleaseParts) = 2
              THEN /\ VersionPattern(versionReleaseParts[1])
                   /\ \/ ReleasePattern(versionReleaseParts[2])
                      \/ ReleasePatternWithHotFix(versionReleaseParts[2])
         ELSE FALSE

\* the empty string is the failure sentinel
IncrementTag(t, hf) ==
    IF t = <<>> THEN <<>>
    ELSE IF ~IsTagValid(t) THEN <<>>
    ELSE
      LET parts == Split(t, "_")
          versionPart == parts[Len(parts)]
          prefix == Join(SubSeq(parts, 1, Len(parts) - 1), <<"_">>)
          versionReleaseParts == Split(versionPart, "-")
          version == versionReleaseParts[1]
      IN IF Len(parts) < 2 THEN <<>>
         ELSE IF Len(versionReleaseParts) = 1
              THEN IF ~hf
                   THEN prefix \o <<"_">> \o version \o <<"-", "1">>
                   ELSE prefix \o <<"_">> \o version \o <<"-", "0", ".", "1">>
         ELSE IF Len(versionReleaseParts) # 2 THEN <<>>
         ELSE
           LET release0 == versionReleaseParts[2]
               dotted == Contains(release0, ".")
               releaseParts == Split(release0, ".")
               release == IF dotted THEN releaseParts[1] ELSE release0
               prerelease == IF dotted /\ Len(releaseParts) = 2
                             THEN releaseParts[2] ELSE <<"0">>
               releaseInt == Atoi(release)
               prereleaseInt == Atoi(prerelease)
           IN IF dotted /\ Len(releaseParts) # 2 THEN <<>>
              ELSE IF ~hf
                   THEN IF ~releaseInt.ok THEN <<>>
                        ELSE prefix \o <<"_">> \o version \o <<"-">>
                             \o Itoa(releaseInt.val + 1)
              ELSE IF ~prereleaseInt.ok THEN <<>>
                   ELSE prefix \o <<"_">> \o version \o <<"-">> \o release
                        \o <<".">> \o Itoa(prereleaseInt.val + 1)

TagPrefix(env, version, service) ==
    IF service # <<>>
    THEN service \o <<"_">> \o env \o <<"_">> \o version
    ELSE env \o <<"_">> \o version

GetEnvFromTag(t) ==
    LET parts == Split(t, "_") IN
    IF Len(parts) < 2 \/ Len(parts) > 3 THEN [env |-> <<>>, err |-> TRUE]
    ELSE IF Len(parts) = 2 THEN [env |-> parts[1], err |-> FALSE]
    ELSE [env |-> parts[2], err |-> FALSE]

\* Cmd / CmdInDir: the trimmed standard output, or an error
Cmd(out, fails) ==
    IF fails THEN [out |-> <<>>, err |-> TRUE]
    ELSE [out |-> TrimSpace(out), err |-> FALSE]

\* return "", "", nil
NoFound == [tag |-> <<>>, comment |-> <<>>, err |-> FALSE]

NoBest == [bestTag |-> <<>>, bestComment |-> <<>>, highestReleaseNum |-> -1]

\* SelectLine without the IsTagValid test on the line's tag
SelectLineNoValidation(best, rawLine) ==
    LET line == TrimSpace(rawLine)
        parts == SplitN2(line, " ")
        t == parts[1]
        comment == IF Len(parts) > 1 THEN TrimSpace(parts[2]) ELSE <<>>
        tagParts == Split(t, "_")
        versionPart == tagParts[Len(tagParts)]
        versionReleaseParts == Split(versionPart, "-")
    IN IF line = <<>> THEN best
       ELSE IF Len(tagParts) < 2 THEN best
       ELSE IF Len(versionReleaseParts) = 1
            THEN IF best.highestReleaseNum = -1
                 THEN [bestTag |-> t, bestComment |-> comment,
                       highestReleaseNum |-> 0]
                 ELSE best
       ELSE IF Len(versionReleaseParts) = 2
            THEN LET releaseStr0 == versionReleaseParts[2]
                     releaseParts == Split(releaseStr0, ".")
                     releaseStr ==
                         IF Contains(releaseStr0, ".") /\ Len(releaseParts) = 2
                         THEN releaseParts[1] ELSE releaseStr0
                     releaseNum == Atoi(releaseStr)
                 IN IF releaseNum.ok /\ releaseNum.val > best.highestReleaseNum
                    THEN [bestTag |-> t, bestComment |-> comment,
                          highestReleaseNum |-> releaseNum.val]
                    ELSE best
       ELSE best

\* one iteration of the selection loop of FindLastTagAndCommentInDir
SelectLine(best, rawLine) ==
    LET line == TrimSpace(rawLine)
        parts == SplitN2(line, " ")
        t == parts[1]
        comment == IF Len(parts) > 1 THEN TrimSpace(parts[2]) ELSE <<>>
        tagParts == Split(t, "_")
        versionPart == tagParts[Len(tagParts)]
        versionReleaseParts == Split(versionPart, "-")
    IN IF line = <<>> THEN best
       ELSE IF ~IsTagValid(t) THEN best
       ELSE IF Len(tagParts) < 2 THEN best
       ELSE IF Len(versionReleaseParts) = 1
            THEN IF best.highestReleaseNum = -1
                 THEN [bestTag |-> t, bestComment |-> comment,
                       highestReleaseNum |-> 0]
                 ELSE best
       ELSE IF Len(versionReleaseParts) = 2
            THEN LET releaseStr0 == versionReleaseParts[2]
                     releaseParts == Split(releaseStr0, ".")
                     releaseStr ==
                         IF Contains(releaseStr0, ".") /\ Len(releaseParts) = 2
                         THEN releaseParts[1] ELSE releaseStr0
                     releaseNum == Atoi(releaseStr)
                 IN IF releaseNum.ok /\ releaseNum.val > best.highestReleaseNum
                    THEN [bestTag |-> t, bestComment |-> comment,
                          highestReleaseNum |-> releaseNum.val]
                    ELSE best
       ELSE best

\* the selection loop over the lines, in scan order
RECURSIVE SelectLoop(_, _)
SelectLoop(lines, best) ==
    IF Len(lines) = 0 THEN best
    ELSE SelectLoop(Tail(lines), SelectLine(best, Head(lines)))

\* FindLastTagAndCommentInDir after the command line is built: out is what
\* git printed, fails whether the command failed
FindLastTagAndCommentInDir(out, fails) ==
    LET r == Cmd(out, fails)
        tagComment == r.out
    IN IF r.err \/ tagComment = <<>>
       THEN [tag |-> <<>>, comment |-> <<>>, err |-> r.err]
       ELSE LET lines == Split(TrimSpace(tagComment), "\n")
                best == SelectLoop(lines, NoBest)
            IN IF best.bestTag = <<>> THEN NoFound
               ELSE [tag |-> best.bestTag, comment |-> best.bestComment,
                     err |-> FALSE]

----------------------------------------------------------------------------
(* Semantic versions (pkg/utils, semver).                                  *)

BumpMajor == "major"
BumpMinor == "minor"
BumpPatch == "patch"
BumpAuto == "auto"

\* strings.TrimPrefix(version, "v")
TrimPrefixV(s) == IF Len(s) > 0 /\ s[1] = "v" THEN Tail(s) ELSE s

\* the nil *SemanticVersion returned with an error
NoVersion ==
    [err |-> TRUE, Major |-> 0, Minor |-> 0, Patch |-> 0, Prerelease |-> <<>>]

\* a parser that keeps the prerelease up to its first '-' only
ParseSemanticVersionFirstPart(version0) ==
    LET version == TrimPrefixV(version0)
        parts == Split(version, "-")
        versionPart == parts[1]
        prerelease == IF Len(parts) > 1 THEN parts[2] ELSE <<>>
        versionNumbers == Split(versionPart, ".")
    IN IF Len(versionNumbers) # 3 THEN NoVersion
       ELSE LET major == Atoi(versionNumbers[1])
                minor == Atoi(versionNumbers[2])
                patch == Atoi(versionNumbers[3])
            IN IF ~major.ok THEN NoVersion
               ELSE IF ~minor.ok THEN NoVersion
               ELSE IF ~patch.ok THEN NoVersion
               ELSE [err |-> FALSE, Major |-> major.val, Minor |-> minor.val,
                     Patch |-> patch.val, Prerelease |-> prerelease]

ParseSemanticVersion(version0) ==
    LET version == TrimPrefixV(version0)
        parts == Split(version, "-")
        versionPart == parts[1]
        prerelease == IF Len(parts) > 1 THEN Join(Tail(parts), <<"-">>)
                      ELSE <<>>
        versionNumbers == Split(versionPart, ".")
    IN IF Len(versionNumbers) # 3 THEN NoVersion
       ELSE LET major == Atoi(versionNumbers[1])
                minor == Atoi(versionNumbers[2])
                patch == Atoi(versionNumbers[3])
            IN IF ~major.ok THEN NoVersion
               ELSE IF ~minor.ok THEN NoVersion
               ELSE IF ~patch.ok THEN NoVersion
               ELSE [err |-> FALSE, Major |-> major.val, Minor |-> minor.val,
                     Patch |-> patch.val, Prerelease |-> prerelease]

\* (SemanticVersion).String
SemVerString(sv) ==
    LET version == Itoa(sv.Major) \o <<".">> \o Itoa(sv.Minor) \o <<".">>
                       \o Itoa(sv.Patch)
    IN IF sv.Prerelease # <<>> THEN version \o <<"-">> \o sv.Prerelease
       ELSE version

\* a bump that leaves the lower components as they were
BumpSemanticVersionNoReset(version, bumpType) ==
    LET sv == ParseSemanticVersion(version) IN
    IF sv.err THEN [version |-> <<>>, err |-> TRUE]
    ELSE IF bumpType = BumpMajor
         THEN [version |-> SemVerString([sv EXCEPT !.Major = @ + 1,
                                                   !.Prerelease = <<>>]),
               err |-> FALSE]
    ELSE IF bumpType = BumpMinor
         THEN [version |-> SemVerString([sv EXCEPT !.Minor = @ + 1,
                                                   !.Prerelease = <<>>]),
               err |-> FALSE]
    ELSE IF bumpType = BumpPatch
         THEN [version |-> SemVerString([sv EXCEPT !.Patch = @ + 1,
                                                   !.Prerelease = <<>>]),
               err |-> FALSE]
    ELSE [version |-> <<>>, err |-> TRUE]

\* a bump that keeps the prerelease of its input
BumpSemanticVersionKeepPrerelease(version, bumpType) ==
    LET sv == ParseSemanticVersion(version) IN
    IF sv.err THEN [version |-> <<>>, err |-> TRUE]
    ELSE IF bumpType = BumpMajor
         THEN [version |-> SemVerString([sv EXCEPT !.Major = @ + 1,
                                                   !.Minor = 0, !.Patch = 0]),
               err |-> FALSE]
    ELSE IF bumpType = BumpMinor
         THEN [version |-> SemVerString([sv EXCEPT !.Minor = @ + 1,
                                                   !.Patch = 0]),
               err |-> FALSE]
    ELSE IF bumpType = BumpPatch
         THEN [version |-> SemVerString([sv EXCEPT !.Patch = @ + 1]),
               err |-> FALSE]
    ELSE [version |-> <<>>, err |-> TRUE]

BumpSemanticVersion(version, bumpType) ==
    LET sv == ParseSemanticVersion(version) IN
    IF sv.err THEN [version |-> <<>>, err |-> TRUE]
    ELSE IF bumpType = BumpMajor
         THEN [version |-> SemVerString([sv EXCEPT !.Major = @ + 1,
                                                   !.Minor = 0, !.Patch = 0,
                                                   !.Prerelease = <<>>]),
               err |-> FALSE]
    ELSE IF bumpType = BumpMinor
         THEN [version |-> SemVerString([sv EXCEPT !.Minor = @ + 1,
                                                   !.Patch = 0,
                                                   !.Prerelease = <<>>]),
               err |-> FALSE]
    ELSE IF bumpType = BumpPatch
         THEN [version |-> SemVerString([sv EXCEPT !.Patch = @ + 1,
                                                   !.Prerelease = <<>>]),
               err |-> FALSE]
    ELSE [version |-> <<>>, err |-> TRUE]

\* a comparison that stops after the minor number
CompareSemanticVersionsNoPatch(v1, v2) ==
    LET sv1 == ParseSemanticVersion(v1)
        sv2 == ParseSemanticVersion(v2)
    IN IF sv1.err THEN [val |-> 0, err |-> TRUE]
       ELSE IF sv2.err THEN [val |-> 0, err |-> TRUE]
       ELSE IF sv1.Major # sv2.Major
            THEN [val |-> IF sv1.Major < sv2.Major THEN -1 ELSE 1, err |-> FALSE]
       ELSE IF sv1.Minor # sv2.Minor
            THEN [val |-> IF sv1.Minor < sv2.Minor THEN -1 ELSE 1, err |-> FALSE]
       ELSE [val |-> 0, err |-> FALSE]

\* -1 if v1 < v2, 0 if v1 == v2, 1 if v1 > v2
CompareSemanticVersions(v1, v2) ==
    LET sv1 == ParseSemanticVersion(v1)
        sv2 == ParseSemanticVersion(v2)
    IN IF sv1.err THEN [val |-> 0, err |-> TRUE]
       ELSE IF sv2.err THEN [val |-> 0, err |-> TRUE]
       ELSE IF sv1.Major # sv2.Major
            THEN [val |-> IF sv1.Major < sv2.Major THEN -1 ELSE 1, err |-> FALSE]
       ELSE IF sv1.Minor # sv2.Minor
            THEN [val |-> IF sv1.Minor < sv2.Minor THEN -1 ELSE 1, err |-> FALSE]
       ELSE IF sv1.Patch # sv2.Patch
            THEN [val |-> IF sv1.Patch < sv2.Patch THEN -1 ELSE 1, err |-> FALSE]
       ELSE [val |-> 0, err |-> FALSE]

\* the version of a tag that is not validated
GetVersionFromTagUnchecked(t) ==
    LET parts == Split(t, "_")
        versionPart == parts[Len(parts)]
        versionReleaseParts == Split(versionPart, "-")
    IN IF Len(parts) < 2 THEN [version |-> <<>>, err |-> TRUE]
       ELSE [version |-> versionReleaseParts[1], err |-> FALSE]

GetVersionFromTag(t) ==
    IF ~IsTagValid(t) THEN [version |-> <<>>, err |-> TRUE]
    ELSE LET parts == Split(t, "_")
             versionPart == parts[Len(parts)]
             versionReleaseParts == Split(versionPart, "-")
         IN IF Len(parts) < 2 THEN [version |-> <<>>, err |-> TRUE]
            ELSE [version |-> versionReleaseParts[1], err |-> FALSE]

\* a bump that carries the release of the source tag over
BumpTagVersionKeepRelease(t, bumpType, env, service) ==
    LET version == GetVersionFromTag(t) IN
    IF version.err THEN [tag |-> <<>>, err |-> TRUE]
    ELSE LET newVersion == BumpSemanticVersion(version.version, bumpType)
             parts == Split(t, "_")
             last == SplitN2(parts[Len(parts)], "-")
             release == IF Len(last) > 1 THEN last[2] ELSE <<>>
         IN
         IF newVersion.err THEN [tag |-> <<>>, err |-> TRUE]
         ELSE [tag |-> TagPrefix(env, newVersion.version, service) \o <<"-">>
                           \o (IF release = <<>> THEN <<"1">> ELSE release),
               err |-> FALSE]

BumpTagVersion(t, bumpType, env, service) ==
    LET version == GetVersionFromTag(t) IN
    IF version.err THEN [tag |-> <<>>, err |-> TRUE]
    ELSE LET newVersion == BumpSemanticVersion(version.version, bumpType) IN
         IF newVersion.err THEN [tag |-> <<>>, err |-> TRUE]
         ELSE [tag |-> TagPrefix(env, newVersion.version, service)
                           \o <<"-", "1">>,
               err |-> FALSE]

UpperCase ==
    <<"A", "B", "C", "D", "E", "F", "G", "H", "I", "J", "K", "L", "M",
      "N", "O", "P", "Q", "R", "S", "T", "U", "V", "W", "X", "Y", "Z">>

LowerCase ==
    <<"a", "b", "c", "d", "e", "f", "g", "h", "i", "j", "k", "l", "m",
      "n", "o", "p", "q", "r", "s", "t", "u", "v", "w", "x", "y", "z">>

\* the case folding of (?i), restricted to the letters of ASCII
ToLower(c) ==
    IF \E i \in 1..26 : UpperCase[i] = c
    THEN LowerCase[CHOOSE i \in 1..26 : UpperCase[i] = c]
    ELSE c

Lower(s) == [i \in 1..Len(s) |-> ToLower(s[i])]

\* lit is found in s at position i
MatchAt(s, i, lit) ==
    i + Len(lit) - 1 <= Len(s) /\ SubSeq(s, i, i + Len(lit) - 1) = lit

\* an unanchored search for a literal
ContainsLiteral(s, lit) == \E i \in 1..Len(s) : MatchAt(s, i, lit)

\* (?i)(BREAKING|BREAKING CHANGE|!:)
breakingPattern(s) ==
    \/ ContainsLiteral(Lower(s), <<"b", "r", "e", "a", "k", "i", "n", "g">>)
    \/ ContainsLiteral(Lower(s), <<"b", "r", "e", "a", "k", "i", "n", "g", " ", "c", "h", "a", "n", "g", "e">>)
    \/ ContainsLiteral(s, <<"!", ":">>)

\* (?i)^(t1|t2)(\(.+\))?: for the alternatives in types
TypePattern(s, types) ==
    \E t \in types :
        /\ MatchAt(Lower(s), 1, t)
        /\ LET r == SubSeq(s, Len(t) + 1, Len(s)) IN
           \/ MatchAt(r, 1, <<":">>)
           \/ /\ MatchAt(r, 1, <<"(">>)
              /\ \E j \in 3..Len(r) :
                    /\ MatchAt(r, j, <<")", ":">>)
                    /\ \A k \in 2..(j - 1) : r[k] # "\n"

\* (?i)^(feat|feature)(\(.+\))?:
featurePattern(s) == TypePattern(s, {<<"f", "e", "a", "t">>, <<"f", "e", "a", "t", "u", "r", "e">>})

\* (?i)^(fix|bugfix)(\(.+\))?:
fixPattern(s) == TypePattern(s, {<<"f", "i", "x">>, <<"b", "u", "g", "f", "i", "x">>})

\* the loop over the commits: the flags after commits[i..]
RECURSIVE ScanCommits(_, _, _)
ScanCommits(commits, i, flags) ==
    IF i > Len(commits) THEN flags
    ELSE ScanCommits(commits, i + 1,
             IF breakingPattern(commits[i])
             THEN [flags EXCEPT !.hasBreaking = TRUE]
             ELSE IF featurePattern(commits[i])
             THEN [flags EXCEPT !.hasFeature = TRUE]
             ELSE IF fixPattern(commits[i])
             THEN [flags EXCEPT !.hasFix = TRUE]
             ELSE flags)

NoFlags == [hasBreaking |-> FALSE, hasFeature |-> FALSE, hasFix |-> FALSE]

\* a classifier that looks for a feature before a breaking change
DetectBumpTypeFeatureFirst(commits) ==
    LET flags == ScanCommits(commits, 1, NoFlags) IN
    IF flags.hasFeature THEN BumpMinor
    ELSE IF flags.hasBreaking THEN BumpMajor
    ELSE IF flags.hasFix THEN BumpPatch
    ELSE BumpPatch

DetectBumpType(commits) ==
    LET flags == ScanCommits(commits, 1, NoFlags) IN
    IF flags.hasBreaking THEN BumpMajor
    ELSE IF flags.hasFeature THEN BumpMinor
    ELSE IF flags.hasFix THEN BumpPatch
    ELSE BumpPatch

\* utils.Ask, given the line the user typed
Ask(input) == Lower(TrimSpace(input))

\* GetLatestSemanticVersion, given what
\* `git tag -l '<pattern>_*' --sort=-version:refname` printed
GetLatestSemanticVersion(out, fails) ==
    LET r == Cmd(out, fails) IN
    IF r.err THEN [tag |-> <<>>, version |-> <<>>, err |-> TRUE]
    ELSE IF r.out = <<>> THEN [tag |-> <<>>, version |-> <<>>, err |-> TRUE]
    ELSE LET tags == Split(r.out, "\n")
             latestTag == tags[1]
             version == GetVersionFromTag(latestTag)
         IN IF version.err
            THEN [tag |-> <<>>, version |-> <<>>, err |-> TRUE]
            ELSE [tag |-> latestTag, version |-> version.version,
                  err |-> FALSE]

\* getBumpType of version-diff
getBumpType(oldVersion, newVersion) ==
    LET oldSV == ParseSemanticVersion(oldVersion)
        newSV == ParseSemanticVersion(newVersion)
    IN IF oldSV.err \/ newSV.err THEN "unknown"
       ELSE IF newSV.Major > oldSV.Major THEN "MAJOR"
       ELSE IF newSV.Minor > oldSV.Minor THEN "MINOR"
       ELSE IF newSV.Patch > oldSV.Patch THEN "PATCH"
       ELSE "none"

----------------------------------------------------------------------------
(* The repository as the tool sees it: `git tag --list -n1 '<pattern>'`    *)
(* prints the tags that match the glob, sorted by name, each followed by   *)
(* the first line of its annotation.                                       *)

\* the characters of tag names in the order of their codes
AsciiOrder ==
    <<"-", ".", "0", "1", "2", "3", "4", "5", "6", "7", "8", "9", "A",
      "B", "C", "D", "E", "F", "G", "H", "I", "J", "K", "L", "M", "N",
      "O", "P", "Q", "R", "S", "T", "U", "V", "W", "X", "Y", "Z", "_",
      "a", "b", "c", "d", "e", "f", "g", "h", "i", "j", "k", "l", "m",
      "n", "o", "p", "q", "r", "s", "t", "u", "v", "w", "x", "y", "z">>

Code(c) == CHOOSE i \in 1..Len(AsciiOrder) : AsciiOrder[i] = c

\* a sorts before b, byte by byte
RECURSIVE LessString(_, _)
LessString(a, b) ==
    IF b = <<>> THEN FALSE
    ELSE IF a = <<>> THEN TRUE
    ELSE IF a[1] # b[1] THEN Code(a[1]) < Code(b[1])
    ELSE LessString(Tail(a), Tail(b))

\* the elements of a set of tags in the order git lists them
RECURSIVE SortTags(_)
SortTags(S) ==
    IF S = {} THEN <<>>
    ELSE LET first == CHOOSE t \in S : \A u \in S \ {t} : LessString(t, u)
         IN <<first>> \o SortTags(S \ {first})

\* the glob of git, for patterns of literal characters, ? and *
RECURSIVE GlobMatch(_, _)
GlobMatch(pattern, name) ==
    IF pattern = <<>> THEN name = <<>>
    ELSE IF pattern[1] = "*"
         THEN \E k \in 0..Len(name) :
                  GlobMatch(Tail(pattern), SubSeq(name, k + 1, Len(name)))
    ELSE IF name = <<>> THEN FALSE
    ELSE (pattern[1] = "?" \/ pattern[1] = name[1])
             /\ GlobMatch(Tail(pattern), Tail(name))

\* the end of the run of digits that starts at position i of s
RECURSIVE SkipDigits(_, _)
SkipDigits(s, i) ==
    IF i <= Len(s) /\ s[i] \in Digits THEN SkipDigits(s, i + 1) ELSE i

\* ^release_(\d+)\.(\d+)
ReleaseBranchPattern(s) ==
    LET lit == <<"r", "e", "l", "e", "a", "s", "e", "_">>
        i == Len(lit) + 1
        j == SkipDigits(s, i)
    IN /\ MatchAt(s, 1, lit)
       /\ j > i
       /\ MatchAt(s, j, <<".">>)
       /\ SkipDigits(s, j + 1) > j + 1

IsReleaseBranch(branch) == ReleaseBranchPattern(branch)

\* ^(\d+)\.(\d+)-(\d+)\.(\d+)
VersionHotFixPattern(s) ==
    LET a == SkipDigits(s, 1)
        b == SkipDigits(s, a + 1)
        c == SkipDigits(s, b + 1)
        d == SkipDigits(s, c + 1)
    IN /\ a > 1 /\ MatchAt(s, a, <<".">>)
       /\ b > a + 1 /\ MatchAt(s, b, <<"-">>)
       /\ c > b + 1 /\ MatchAt(s, c, <<".">>)
       /\ d > c + 1

IsVersionValid(version, hf) ==
    IF hf THEN VersionHotFixPattern(version) ELSE VersionPattern(version)

\* strings.Replace(s, old, new, 1) for a non-empty old
ReplaceFirst(s, old, new) ==
    IF ~ContainsLiteral(s, old) THEN s
    ELSE LET i == CHOOSE k \in 1..Len(s) :
                      MatchAt(s, k, old) /\ \A j \in 1..(k - 1) : ~MatchAt(s, j, old)
         IN SubSeq(s, 1, i - 1) \o new \o SubSeq(s, i + Len(old), Len(s))

----------------------------------------------------------------------------
(* Inputs.                                                                 *)

svc == <<"s", "v", "c">>

\* sequences over S of length 0..n
RECURSIVE SeqsUpTo(_, _)
SeqsUpTo(S, n) ==
    IF n = 0 THEN {<<>>}
    ELSE LET shorter == SeqsUpTo(S, n - 1)
         IN shorter \cup {Append(q, x) : q \in shorter, x \in S}

EnvSet == {ENVS[i] : i \in 1..Len(ENVS)}

\* the segments in front of the version segment
PrefixInputs ==
    SeqsUpTo({stg6, svc}, MaxPrefixSegs)
        \cup {<<e>> : e \in EnvSet} \cup {<<svc, e>> : e \in EnvSet}

VersionInputs ==
    { <<"1", ".", "2">>, <<"1", "0", ".", "2", "5">>,
      <<"1", ".", "2", ".", "3">>, <<"0", ".", "0", ".", "1">>,
      <<"1">>, <<"1", ".", "2", ".", "3", ".", "4">>,
      <<"1", ".", "x", ".", "3">>, <<>> }

ReleaseNumbers == {Itoa(r) : r \in 0..MaxRelease}

HotfixReleases ==
    {Itoa(r) \o <<".">> \o Itoa(h) : r \in {0, 1, MaxRelease - 1}, h \in 0..MaxHotfix}

MalformedReleases ==
    { <<"1", "x", "2">>, <<"1", "2", "a">>, <<"a">>, <<"1", ".">>,
      <<".", "1">>, <<"1", ".", "2", ".", "3">>, <<"1", "-", "2">>, <<>> }

\* what follows the version in the last segment: nothing, or -release
SuffixInputs ==
    {<<>>} \cup {<<"-">> \o r :
                    r \in ReleaseNumbers \cup HotfixReleases \cup MalformedReleases}

RenderTag(prefixSegs, version, suffix) ==
    Join(Append(prefixSegs, version \o suffix), <<"_">>)

TagInputs ==
    {RenderTag(p, v, s) : p \in PrefixInputs, v \in VersionInputs, s \in SuffixInputs}

\* candidate tags of one prefix, as `git tag --list 'demo_0.1.1*'` lists them,
\* and two tags that IsTagValid rejects
SelPrefix == demo \o <<"_", "0", ".", "1", ".", "1">>

CandidateTags ==
    {SelPrefix} \cup {SelPrefix \o <<"-">> \o Itoa(r) : r \in 0..3}
        \cup { SelPrefix \o <<"-", "3", ".", "1">>,
               SelPrefix \o <<"-", "1", "x", "2">>,
               <<"f", "o", "o">> \o <<"_", "0", ".", "1", ".", "1", "-", "9">>,
               SelPrefix \o <<"-", "x">> }

\* lists of distinct tags, in any order
TagLists ==
    {q \in SeqsUpTo(CandidateTags, MaxLines) :
        \A i, j \in 1..Len(q) : i # j => q[i] # q[j]}

\* `git tag -n1` prints the tag, a blank and the first line of the annotation
OutputLine(t, i) == t \o <<" ">> \o <<"c">> \o Itoa(i)

RECURSIVE OutputOf(_, _)
OutputOf(q, i) ==
    IF i > Len(q) THEN <<>>
    ELSE OutputLine(q[i], i) \o <<"\n">> \o OutputOf(q, i + 1)

Outputs == {OutputOf(q, 1) : q \in TagLists}

\* the output of `git tag --list -n1 '<pattern>'` in a repository with the
\* tags of existing
GitTagList(existing, pattern) ==
    LET listed == SortTags({t \in existing : GlobMatch(pattern, t)})
    IN OutputOf(listed, 1)

\* FindLastTagAndCommentInDir(env, version, service, dir) in a repository
FindLastTagInRepo(existing, env, version, service, fails) ==
    LET tagPattern == TagPrefix(env, version, service) \o <<"*">>
    IN FindLastTagAndCommentInDir(GitTagList(existing, tagPattern), fails)


\* one dot-separated component of a version string
ComponentInputs ==
    {Itoa(n) : n \in 0..MaxComponent}
        \cup {<<"9">>, <<"0", "1">>, <<"+", "1">>, <<"x">>, <<>>}

VersionBodies ==
    {a \o <<".">> \o b \o <<".">> \o c :
        a \in ComponentInputs, b \in ComponentInputs, c \in ComponentInputs}
        \cup {<<>>, <<"1">>, <<"1", ".", "2">>, <<"1", ".", "2", ".", "3", ".", "4">>}

\* what follows the three components: nothing, or "-" and a prerelease
PrereleaseInputs ==
    {<<>>, <<"-", "a">>, <<"-", "a", "-", "1">>, <<"-">>,
     <<"-", "r", "c", ".", "1">>, <<"-", ".", "a", ".">>}

SemVerInputs ==
    {v \o b \o p : v \in {<<>>, <<"v">>, <<"v", "v">>}, b \in VersionBodies,
                   p \in PrereleaseInputs}

BumpVersionInputs ==
    {v \o b \o p : v \in {<<>>, <<"v">>}, b \in VersionBodies,
                   p \in {<<>>, <<"-", "a", "-", "1">>, <<"-">>}}

BumpTypeInputs == {BumpMajor, BumpMinor, BumpPatch, BumpAuto, "", "Major"}

\* versions to compare: 9 against 10 tells a numeric from a textual order
CompareComponents == {<<"1">>, <<"9">>, <<"1", "0">>}

CompareInputs ==
    LET bodies == {a \o <<".">> \o b \o <<".">> \o c :
                      a \in CompareComponents, b \in CompareComponents,
                      c \in CompareComponents}
    IN bodies \cup {b \o <<"-", "a">> : b \in bodies}
           \cup {<<"v">> \o b : b \in bodies}
           \cup {<<"1", ".", "2">>, <<"1", ".", "x", ".", "1">>,
                 <<"+", "1", ".", "1", ".", "1">>, <<>>}

\* tags to bump: with and without a service, any release, and invalid ones
BumpTagInputs ==
    {RenderTag(p, v, r) :
        p \in {<<stg6>>, <<svc, stg6>>, <<svc>>, <<>>},
        v \in VersionInputs \cup {<<"9", ".", "9", ".", "9">>, <<"1", ".", "+", "2", ".", "3">>},
        r \in {<<>>, <<"-", "1">>, <<"-", "0">>, <<"-", "3", ".", "2">>, <<"-", "1", "x", "2">>, <<"-", "a">>}}

BumpEnvInputs == {stg6, dev, <<"q", "a">>}

ServiceInputs == {<<>>, svc}

\* commit subjects, as `git log --pretty=format:%s` prints them
CommitInputs ==
    { <<"f", "e", "a", "t", ":", " ", "x">>,
      <<"f", "i", "x", ":", " ", "y">>,
      <<"f", "e", "a", "t", "!", ":", " ", "x">>,
      <<"d", "o", "c", "s", ":", " ", "x">>,
      <<"B", "R", "E", "A", "K", "I", "N", "G", " ", "C", "H", "A", "N", "G", "E", ":", " ", "z">>,
      <<"f", "e", "a", "t", "u", "r", "e", "(", "a", "p", "i", ")", ":", " ", "a">>,
      <<"F", "e", "a", "t", ":", " ", "b">>,
      <<"f", "i", "x", ":", " ", "b", "r", "e", "a", "k", "i", "n", "g", " ", "c">>,
      <<"b", "u", "g", "f", "i", "x", "(", "u", "i", ")", ":", " ", "d">>,
      <<"f", "e", "a", "t", " ", "x">>,
      <<"f", "e", "a", "t", "(", ")", ":", " ", "e">>,
      <<>> }

CommitLists == SeqsUpTo(CommitInputs, MaxCommits)

\* the flag given to bump-version: one of the four kinds, or none
BumpFlagInputs == {BumpMajor, BumpMinor, BumpPatch, BumpAuto, "none"}

\* environments given on the command line: two of ENVS and an unknown one
CommandEnvInputs == {stg6, dev, <<"q", "a">>}

\* what `git tag -l '<pattern>_*'` lists, newest version first
LatestTagLists(pattern) ==
    LET t1 == pattern \o <<"_", "1", ".", "2", ".", "3", "-", "4">>
        t2 == pattern \o <<"_", "1", ".", "2", ".", "2", "-", "1">>
        t3 == pattern \o <<"_", "1", ".", "2", "-", "3">>
    IN {<<>>, <<t1>>, <<t1, t2>>, <<t2, t1>>, <<t3>>, <<t3, t1>>}

\* the lines of a command's output
RenderLines(q) == Join(q, <<"\n">>) \o (IF q = <<>> THEN <<>> ELSE <<"\n">>)

\* what the user types at a prompt
AnswerInputs == {<<"y">>, <<"Y", " ">>, <<"n">>, <<>>}

\* the commits `git log` lists since the last tag
LogInputs == {q \in CommitLists : Len(q) <= 1} \cup
             {<<<<"f", "i", "x", ":", " ", "y">>, <<"f", "e", "a", "t", "!", ":", " ", "x">>>>}

\* the version given to add-tag: a semantic one and a legacy one
AddTagVersionInputs == {<<"1", ".", "2", ".", "3">>, <<"1", ".", "2">>}

\* --from: no tag, tags of the grammar, and a legacy tag
PromoteInputs ==
    { <<>>, <<"s", "t", "g", "6", "_", "1", ".", "2", ".", "3", "-", "1">>, <<"s", "v", "c", "_", "s", "t", "g", "6", "_", "1", ".", "2", ".", "3", "-", "1", ".", "2">>, <<"d", "e", "v", "_", "1", ".", "2", ".", "3">>,
      <<"d", "e", "v", "t", "o", "o", "l", "s", "_", "d", "e", "v", "_", "1", ".", "2", ".", "3", "-", "0">>, <<"s", "t", "g", "6", "_", "1", ".", "2", "-", "0">> }

\* what `git rev-parse --abbrev-ref HEAD` prints
BranchInputs == {<<"m", "a", "s", "t", "e", "r">>, <<"m", "a", "i", "n">>, <<"f", "e", "a", "t", "u", "r", "e">>, <<"r", "e", "l", "e", "a", "s", "e", "_", "1", ".", "2">>}

\* commit identifiers
ShaInputs == {<<"c", "1">>, <<"c", "2">>}

\* tags a repository may hold when add-tag runs for env and version
ExistingPool(env, version) ==
    LET p == env \o <<"_">> \o version IN
    { p, p \o <<"-", "0">>, p \o <<"-", "1">>, p \o <<"-", "1", ".", "1">>, p \o <<"0", "-", "5">>,
      svc \o <<"_">> \o p \o <<"-", "0">> }

\* the sets of at most n elements of S
RECURSIVE SubsetsUpTo(_, _)
SubsetsUpTo(S, n) ==
    IF n = 0 THEN {{}}
    ELSE LET smaller == SubsetsUpTo(S, n - 1)
         IN smaller \cup {e \cup {x} : e \in smaller, x \in S}

\* tags of several versions that a repository may hold for env
LastTagPool(env) ==
    { env \o <<"_", "1", ".", "2", ".", "3", "-", "5">>, env \o <<"_", "2", ".", "0", ".", "0", "-", "1">>, env \o <<"_", "1", ".", "1", "0", ".", "0", "-", "2">>,
      env \o <<"_", "2", ".", "0", ".", "0", "-", "0">>, env \o <<"_", "1", ".", "2", ".", "3">> }

NoEnv == [env |-> <<>>, err |-> FALSE]

\* no semantic-version function was called
NoCall == [none |-> TRUE]

----------------------------------------------------------------------------
(* One run of the command-line tool: the process starts with nothing       *)
(* computed, calls an engine function on its arguments, and exits.         *)

Init ==
    /\ op = "none"
    /\ tag = <<>>
    /\ hotFix = FALSE
    /\ valid = FALSE
    /\ newTag = <<>>
    /\ tagEnv = NoEnv
    /\ stdout = <<>>
    /\ cmdFailed = FALSE
    /\ found = NoFound
    /\ args = NoCall
    /\ ret = NoCall

CallIsTagValid ==
    /\ op = "none"
    /\ \E t \in TagInputs :
        /\ op' = "IsTagValid"
        /\ tag' = t
        /\ valid' = IsTagValid(t)
        /\ hotFix' = FALSE /\ newTag' = <<>> /\ tagEnv' = NoEnv
        /\ stdout' = <<>> /\ cmdFailed' = FALSE /\ found' = NoFound
        /\ args' = NoCall /\ ret' = NoCall

CallIncrementTag ==
    /\ op = "none"
    /\ \E t \in TagInputs, hf \in BOOLEAN :
        /\ op' = "IncrementTag"
        /\ tag' = t
        /\ hotFix' = hf
        /\ newTag' = IncrementTag(t, hf)
        /\ valid' = FALSE /\ tagEnv' = NoEnv
        /\ stdout' = <<>> /\ cmdFailed' = FALSE /\ found' = NoFound
        /\ args' = NoCall /\ ret' = NoCall

CallGetEnvFromTag ==
    /\ op = "none"
    /\ \E t \in TagInputs :
        /\ op' = "GetEnvFromTag"
        /\ tag' = t
        /\ tagEnv' = GetEnvFromTag(t)
        /\ hotFix' = FALSE /\ valid' = FALSE /\ newTag' = <<>>
        /\ stdout' = <<>> /\ cmdFailed' = FALSE /\ found' = NoFound
        /\ args' = NoCall /\ ret' = NoCall

CallFindLastTag ==
    /\ op = "none"
    /\ \E out \in Outputs, fails \in BOOLEAN :
        /\ op' = "FindLastTag"
        /\ stdout' = out
        /\ cmdFailed' = fails
        /\ found' = FindLastTagAndCommentInDir(out, fails)
        /\ tag' = <<>> /\ hotFix' = FALSE /\ valid' = FALSE
        /\ newTag' = <<>> /\ tagEnv' = NoEnv
        /\ args' = NoCall /\ ret' = NoCall

\* the tag engine is not part of a semantic-version call
NoEngineCall ==
    /\ tag' = <<>> /\ hotFix' = FALSE /\ valid' = FALSE /\ newTag' = <<>>
    /\ tagEnv' = NoEnv /\ stdout' = <<>> /\ cmdFailed' = FALSE
    /\ found' = NoFound

\* a version is parsed and, when that succeeds, printed
CallParseSemanticVersion ==
    /\ op = "none"
    /\ \E version \in SemVerInputs :
        LET sv == ParseSemanticVersion(version) IN
        /\ op' = "ParseSemanticVersion"
        /\ args' = [version |-> version]
        /\ ret' = [sv |-> sv,
                   str |-> IF sv.err THEN <<>> ELSE SemVerString(sv)]
        /\ NoEngineCall

CallBumpSemanticVersion ==
    /\ op = "none"
    /\ \E version \in BumpVersionInputs, bumpType \in BumpTypeInputs :
        /\ op' = "BumpSemanticVersion"
        /\ args' = [version |-> version, bumpType |-> bumpType]
        /\ ret' = BumpSemanticVersion(version, bumpType)
        /\ NoEngineCall

CallCompareSemanticVersions ==
    /\ op = "none"
    /\ \E v1 \in CompareInputs, v2 \in CompareInputs :
        /\ op' = "CompareSemanticVersions"
        /\ args' = [v1 |-> v1, v2 |-> v2]
        /\ ret' = CompareSemanticVersions(v1, v2)
        /\ NoEngineCall

CallBumpTagVersion ==
    /\ op = "none"
    /\ \E t \in BumpTagInputs, bumpType \in BumpTypeInputs,
          env \in BumpEnvInputs, service \in ServiceInputs :
        /\ op' = "BumpTagVersion"
        /\ args' = [tag |-> t, bumpType |-> bumpType, env |-> env,
                    service |-> service]
        /\ ret' = BumpTagVersion(t, bumpType, env, service)
        /\ NoEngineCall

CallDetectBumpType ==
    /\ op = "none"
    /\ \E commits \in CommitLists :
        /\ op' = "DetectBumpType"
        /\ args' = [commits |-> commits]
        /\ ret' = [bumpType |-> DetectBumpType(commits)]
        /\ NoEngineCall

----------------------------------------------------------------------------
(* bump-version: runBumpVersion, one action per interaction with git or    *)
(* the user.  ret.pc is the next interaction, ret.cmds the tag-creating    *)
(* and pushing commands executed so far.                                   *)

BumpRun(pc, code, latestTag, bumpType, new, answer, cmds) ==
    [pc |-> pc, code |-> code, latestTag |-> latestTag,
     bumpType |-> bumpType, newTag |-> new, answer |-> answer, cmds |-> cmds]

\* os.Exit(code), or the return from the handler
BumpExit(r, code) == [r EXCEPT !.pc = "exit", !.code = code]

\* the arguments are validated and the project of the service is looked up
BumpVersionStart ==
    /\ op = "none"
    /\ \E environment \in CommandEnvInputs, flag \in BumpFlagInputs,
          preview \in BOOLEAN, service \in ServiceInputs,
          projectFound \in BOOLEAN :
        LET r == BumpRun("latest", 0, <<>>, "", <<>>, <<>>, <<>>) IN
        /\ service = <<>> => projectFound
        /\ op' = "bump-version"
        /\ args' = [environment |-> environment, flag |-> flag,
                    preview |-> preview, service |-> service,
                    projectFound |-> projectFound]
        /\ ret' = IF ~ContainsString(ENVS, environment) THEN BumpExit(r, 1)
                  ELSE IF flag = "none" THEN BumpExit(r, 1)
                  ELSE IF service # <<>> /\ ~projectFound THEN BumpExit(r, 1)
                  ELSE r
        /\ NoEngineCall

\* from the bump type on: the new tag is computed, and previewed or proposed
BumpVersionNewTag(r, bumpType) ==
    LET new == BumpTagVersion(r.latestTag, bumpType, args.environment,
                              args.service)
        r1 == [r EXCEPT !.bumpType = bumpType]
    IN IF new.err THEN BumpExit(r1, 1)
       ELSE IF args.preview THEN BumpExit([r1 EXCEPT !.newTag = new.tag], 0)
       ELSE [r1 EXCEPT !.newTag = new.tag, !.pc = "ask"]

\* the latest tag of the environment is listed
BumpVersionLatest ==
    /\ op = "bump-version" /\ ret.pc = "latest"
    /\ \E fails \in BOOLEAN,
          q \in LatestTagLists(IF args.service # <<>>
                               THEN args.service \o <<"_">> \o args.environment
                               ELSE args.environment) :
        LET latest == GetLatestSemanticVersion(RenderLines(q), fails)
            r == [ret EXCEPT !.latestTag = latest.tag]
        IN /\ fails => q = <<>>
           /\ ret' = IF latest.err THEN BumpExit(ret, 1)
                     ELSE IF args.flag = BumpAuto
                     THEN [r EXCEPT !.pc = "commits"]
                     ELSE BumpVersionNewTag(r, args.flag)
    /\ UNCHANGED <<op, args, tag, hotFix, valid, newTag, tagEnv, stdout,
                   cmdFailed, found>>

\* --auto: the commits since the latest tag are listed and classified
BumpVersionCommits ==
    /\ op = "bump-version" /\ ret.pc = "commits"
    /\ \E fails \in BOOLEAN, commits \in LogInputs :
        /\ fails => commits = <<>>
        /\ ret' = IF fails THEN BumpExit(ret, 1)
                  ELSE IF Len(commits) = 0 THEN BumpExit(ret, 1)
                  ELSE BumpVersionNewTag(ret, DetectBumpType(commits))
    /\ UNCHANGED <<op, args, tag, hotFix, valid, newTag, tagEnv, stdout,
                   cmdFailed, found>>

\* a confirmation that takes any answer for a yes
BumpVersionAskAnyAnswer ==
    /\ op = "bump-version" /\ ret.pc = "ask"
    /\ \E input \in AnswerInputs :
        ret' = [ret EXCEPT !.answer = Ask(input), !.pc = "rev-parse"]
    /\ UNCHANGED <<op, args, tag, hotFix, valid, newTag, tagEnv, stdout,
                   cmdFailed, found>>

\* "Create new tag ...? (y/n)"
BumpVersionAsk ==
    /\ op = "bump-version" /\ ret.pc = "ask"
    /\ \E input \in AnswerInputs :
        LET r == [ret EXCEPT !.answer = Ask(input)] IN
        ret' = IF Ask(input) # <<"y">> THEN BumpExit(r, 0)
               ELSE [r EXCEPT !.pc = "rev-parse"]
    /\ UNCHANGED <<op, args, tag, hotFix, valid, newTag, tagEnv, stdout,
                   cmdFailed, found>>

\* git rev-parse of the target commit, then the prompt for the comment
BumpVersionRevParse ==
    /\ op = "bump-version" /\ ret.pc = "rev-parse"
    /\ \E fails \in BOOLEAN :
        ret' = IF fails THEN BumpExit(ret, 1) ELSE [ret EXCEPT !.pc = "tag"]
    /\ UNCHANGED <<op, args, tag, hotFix, valid, newTag, tagEnv, stdout,
                   cmdFailed, found>>

\* one executed command: "tag" is git tag -a, "push" is git push origin
Executed(cmd, t, fails) == [cmd |-> cmd, tag |-> t, ok |-> ~fails]

\* git tag -a <newTag>
BumpVersionCreateTag ==
    /\ op = "bump-version" /\ ret.pc = "tag"
    /\ \E fails \in BOOLEAN :
        LET r == [ret EXCEPT
                     !.cmds = Append(@, Executed("tag", ret.newTag, fails))]
        IN ret' = IF fails THEN BumpExit(r, 1) ELSE [r EXCEPT !.pc = "push"]
    /\ UNCHANGED <<op, args, tag, hotFix, valid, newTag, tagEnv, stdout,
                   cmdFailed, found>>

\* git push origin <newTag>
BumpVersionPush ==
    /\ op = "bump-version" /\ ret.pc = "push"
    /\ \E fails \in BOOLEAN :
        LET r == [ret EXCEPT
                     !.cmds = Append(@, Executed("push", ret.newTag, fails))]
        IN ret' = IF fails THEN BumpExit(r, 1) ELSE BumpExit(r, 0)
    /\ UNCHANGED <<op, args, tag, hotFix, valid, newTag, tagEnv, stdout,
                   cmdFailed, found>>

----------------------------------------------------------------------------
(* add-tag: runAddTag, one action per interaction with git or the user.    *)

AddTagRun ==
    [pc |-> "branch", code |-> 0, branch |-> <<>>, sha |-> <<>>,
     shaRemote |-> <<>>, existing |-> {}, lastTag |-> <<>>, newTag |-> <<>>,
     answer |-> <<>>, cmds |-> <<>>]

\* os.Exit(code), or the return from the handler
AddTagExit(r, code) == [r EXCEPT !.pc = "exit", !.code = code]

\* the arguments are validated
AddTagStart ==
    /\ op = "none"
    /\ \E environment \in CommandEnvInputs, version \in AddTagVersionInputs,
          promoteFrom \in PromoteInputs, hf \in BOOLEAN,
          service \in ServiceInputs, projectFound \in BOOLEAN :
        /\ service = <<>> => projectFound
        /\ op' = "add-tag"
        /\ args' = [environment |-> environment, version |-> version,
                    promoteFrom |-> promoteFrom, hotFix |-> hf,
                    service |-> service, projectFound |-> projectFound]
        /\ ret' = IF ~ContainsString(ENVS, environment)
                  THEN AddTagExit(AddTagRun, 1)
                  ELSE IF ~IsVersionValid(version, FALSE)
                  THEN AddTagExit(AddTagRun, 1)
                  ELSE IF promoteFrom # <<>> /\ ~hf /\ ~IsTagValid(promoteFrom)
                  THEN AddTagExit(AddTagRun, 1)
                  ELSE AddTagRun
        /\ NoEngineCall

\* a branch check that lets a hot fix through on any branch
AddTagBranchAnyHotFix ==
    /\ op = "add-tag" /\ ret.pc = "branch"
    /\ \E fails \in BOOLEAN, branch \in BranchInputs :
        LET r == [ret EXCEPT !.branch = branch] IN
        ret' = IF fails THEN AddTagExit(ret, 1)
               ELSE IF args.version # <<"l", "a", "s", "t">>
                       /\ IsReleaseBranch(branch) /\ ~args.hotFix
               THEN AddTagExit(r, 1)
               ELSE IF branch # <<"m", "a", "s", "t", "e", "r">>
                       /\ branch # <<"m", "a", "i", "n">> /\ ~args.hotFix
               THEN [r EXCEPT !.pc = "ask-branch"]
               ELSE [r EXCEPT !.pc = "sync"]
    /\ UNCHANGED <<op, args, tag, hotFix, valid, newTag, tagEnv, stdout,
                   cmdFailed, found>>

\* the current branch is read and checked against --hot-fix
AddTagBranch ==
    /\ op = "add-tag" /\ ret.pc = "branch"
    /\ \E fails \in BOOLEAN, branch \in BranchInputs :
        LET r == [ret EXCEPT !.branch = branch] IN
        ret' = IF fails THEN AddTagExit(ret, 1)
               ELSE IF args.version # <<"l", "a", "s", "t">>
                       /\ IsReleaseBranch(branch) /\ ~args.hotFix
               THEN AddTagExit(r, 1)
               ELSE IF branch # <<"m", "a", "s", "t", "e", "r">>
                       /\ branch # <<"m", "a", "i", "n">> /\ ~args.hotFix
               THEN [r EXCEPT !.pc = "ask-branch"]
               ELSE IF args.hotFix /\ ~IsReleaseBranch(branch)
               THEN AddTagExit(r, 1)
               ELSE [r EXCEPT !.pc = "sync"]
    /\ UNCHANGED <<op, args, tag, hotFix, valid, newTag, tagEnv, stdout,
                   cmdFailed, found>>

\* "Current branch is ... Continue? (y/n)"
AddTagAskBranch ==
    /\ op = "add-tag" /\ ret.pc = "ask-branch"
    /\ \E input \in AnswerInputs :
        ret' = IF Ask(input) # <<"y">> THEN AddTagExit(ret, 0)
               ELSE IF args.hotFix /\ ~IsReleaseBranch(ret.branch)
               THEN AddTagExit(ret, 1)
               ELSE [ret EXCEPT !.pc = "sync"]
    /\ UNCHANGED <<op, args, tag, hotFix, valid, newTag, tagEnv, stdout,
                   cmdFailed, found>>

\* the heads of the local and the remote branch are compared
AddTagSync ==
    /\ op = "add-tag" /\ ret.pc = "sync"
    /\ \E shaFails \in BOOLEAN, remoteFails \in BOOLEAN,
          sha \in ShaInputs, shaRemote \in ShaInputs :
        LET r == [ret EXCEPT !.sha = sha, !.shaRemote = shaRemote] IN
        /\ shaFails => (~remoteFails /\ sha = <<"c", "1">>)
        /\ (shaFails \/ remoteFails) => shaRemote = <<"c", "1">>
        /\ ret' = IF shaFails THEN AddTagExit(ret, 1)
                  ELSE IF remoteFails THEN AddTagExit(ret, 1)
                  ELSE IF sha # shaRemote THEN AddTagExit(r, 1)
                  ELSE [r EXCEPT !.pc = "find"]
    /\ UNCHANGED <<op, args, tag, hotFix, valid, newTag, tagEnv, stdout,
                   cmdFailed, found>>

\* the last tag of the version is looked up and, without --from, the new
\* tag is computed from it
AddTagFind ==
    /\ op = "add-tag" /\ ret.pc = "find"
    /\ \E fails \in BOOLEAN,
          existing \in SubsetsUpTo(ExistingPool(args.environment, args.version),
                                   MaxExisting) :
        LET last == FindLastTagInRepo(existing, args.environment,
                                      args.version, <<>>, fails)
            r == [ret EXCEPT !.existing = existing, !.lastTag = last.tag]
            incremented == IncrementTag(last.tag, args.hotFix)
        IN /\ fails => existing = {}
           /\ ret' =
                IF args.service # <<>> /\ ~args.projectFound
                THEN AddTagExit(ret, 1)
                ELSE IF last.err THEN AddTagExit(r, 1)
                ELSE IF args.promoteFrom # <<>>
                THEN [r EXCEPT !.pc = "promote"]
                ELSE IF last.tag # <<>>
                THEN IF incremented = <<>> THEN AddTagExit(r, 1)
                     ELSE [r EXCEPT !.newTag = incremented, !.pc = "ask"]
                ELSE [r EXCEPT
                        !.newTag = TagPrefix(args.environment, args.version,
                                             args.service) \o <<"-", "0">>,
                        !.pc = "ask"]
    /\ UNCHANGED <<op, args, tag, hotFix, valid, newTag, tagEnv, stdout,
                   cmdFailed, found>>

\* --from: the environment of the source tag is replaced
AddTagPromote ==
    /\ op = "add-tag" /\ ret.pc = "promote"
    /\ \E notFound \in BOOLEAN :
        LET promoteFromEnv == GetEnvFromTag(args.promoteFrom) IN
        ret' = IF promoteFromEnv.err THEN AddTagExit(ret, 1)
               ELSE IF ~ContainsString(ENVS, promoteFromEnv.env)
               THEN AddTagExit(ret, 1)
               ELSE IF notFound THEN AddTagExit(ret, 1)
               ELSE [ret EXCEPT
                       !.newTag = ReplaceFirst(args.promoteFrom,
                                               promoteFromEnv.env,
                                               args.environment),
                       !.pc = "ask"]
    /\ UNCHANGED <<op, args, tag, hotFix, valid, newTag, tagEnv, stdout,
                   cmdFailed, found>>

\* "add ...? (y/n)" or "promote ... to ...? (y/n)", then the comment
AddTagAsk ==
    /\ op = "add-tag" /\ ret.pc = "ask"
    /\ \E input \in AnswerInputs :
        LET r == [ret EXCEPT !.answer = Ask(input)] IN
        ret' = IF Ask(input) # <<"y">> THEN AddTagExit(r, 0)
               ELSE [r EXCEPT !.pc = "tag"]
    /\ UNCHANGED <<op, args, tag, hotFix, valid, newTag, tagEnv, stdout,
                   cmdFailed, found>>

\* git tag -a <newTag>
AddTagCreateTag ==
    /\ op = "add-tag" /\ ret.pc = "tag"
    /\ \E fails \in BOOLEAN :
        LET r == [ret EXCEPT
                     !.cmds = Append(@, Executed("tag", ret.newTag, fails))]
        IN ret' = IF fails THEN AddTagExit(r, 1) ELSE [r EXCEPT !.pc = "push"]
    /\ UNCHANGED <<op, args, tag, hotFix, valid, newTag, tagEnv, stdout,
                   cmdFailed, found>>

\* git push origin <newTag>
AddTagPush ==
    /\ op = "add-tag" /\ ret.pc = "push"
    /\ \E fails \in BOOLEAN :
        LET r == [ret EXCEPT
                     !.cmds = Append(@, Executed("push", ret.newTag, fails))]
        IN ret' = IF fails THEN AddTagExit(r, 1) ELSE AddTagExit(r, 0)
    /\ UNCHANGED <<op, args, tag, hotFix, valid, newTag, tagEnv, stdout,
                   cmdFailed, found>>

----------------------------------------------------------------------------
(* last-tag: runLastTag lists the tags of the environment with the version *)
(* wildcard "?" and prints the Selector's result.                          *)

RunLastTag ==
    /\ op = "none"
    /\ \E environment \in CommandEnvInputs, service \in ServiceInputs,
          projectFound \in BOOLEAN, fails \in BOOLEAN :
       \E existing \in SubsetsUpTo(LastTagPool(environment), MaxExisting) :
        LET last == FindLastTagInRepo(existing, environment, <<"?">>, <<>>,
                                      fails)
            refused == \/ ~ContainsString(ENVS, environment)
                       \/ service # <<>> /\ ~projectFound
        IN /\ service = <<>> => projectFound
           /\ (fails \/ refused) => existing = {}
           /\ refused => ~fails
           /\ op' = "last-tag"
           /\ args' = [environment |-> environment, service |-> service,
                       projectFound |-> projectFound]
           /\ ret' = IF refused
                     THEN [pc |-> "exit", code |-> 1, existing |-> existing,
                           lastTag |-> <<>>, lastComment |-> <<>>]
                     ELSE IF last.err
                     THEN [pc |-> "exit", code |-> 1, existing |-> existing,
                           lastTag |-> <<>>, lastComment |-> <<>>]
                     ELSE [pc |-> "exit", code |-> 0, existing |-> existing,
                           lastTag |-> last.tag, lastComment |-> last.comment]
           /\ NoEngineCall

\* version-diff names the bump between two versions
CallGetBumpType ==
    /\ op = "none"
    /\ \E oldVersion \in CompareInputs :
       \E newVersion \in CompareInputs \cup
              {BumpSemanticVersion(oldVersion, k).version :
                  k \in {BumpMajor, BumpMinor, BumpPatch}} :
        /\ op' = "getBumpType"
        /\ args' = [oldVersion |-> oldVersion, newVersion |-> newVersion]
        /\ ret' = [bumpType |-> getBumpType(oldVersion, newVersion)]
        /\ NoEngineCall

\* the commands of the tool that run in several steps
Commands == {"bump-version", "add-tag", "last-tag"}

\* the process exits; the next run starts afresh
Exit ==
    /\ op # "none"
    /\ op \in Commands => ret.pc = "exit"
    /\ op' = "none"
    /\ tag' = <<>> /\ hotFix' = FALSE /\ valid' = FALSE /\ newTag' = <<>>
    /\ tagEnv' = NoEnv /\ stdout' = <<>> /\ cmdFailed' = FALSE
    /\ found' = NoFound
    /\ args' = NoCall /\ ret' = NoCall

Next ==
    \/ Exit
    \/ CallIsTagValid
    \/ CallIncrementTag
    \/ CallGetEnvFromTag
    \/ CallFindLastTag
    \/ CallParseSemanticVersion
    \/ CallBumpSemanticVersion
    \/ CallCompareSemanticVersions
    \/ CallBumpTagVersion
    \/ CallDetectBumpType
    \/ BumpVersionStart
    \/ BumpVersionLatest
    \/ BumpVersionCommits
    \/ BumpVersionAsk
    \/ BumpVersionRevParse
    \/ BumpVersionCreateTag
    \/ BumpVersionPush
    \/ AddTagStart
    \/ AddTagBranch
    \/ AddTagAskBranch
    \/ AddTagSync
    \/ AddTagFind
    \/ AddTagPromote
    \/ AddTagAsk
    \/ AddTagCreateTag
    \/ AddTagPush
    \/ RunLastTag
    \/ CallGetBumpType

Spec == Init /\ [][Next]_vars

----------------------------------------------------------------------------
(* The tag grammar as the specification writes it (section 6), read off    *)
(* the string without IsTagValid:                                          *)
(*   tag     := [service "_"] environment "_" version ["-" release]        *)
(*   version := digits "." digits | digits "." digits "." digits           *)
(*   release := digits ["." digits]                                        *)

Segments(t) == Split(t, "_")

LastSegment(t) == Segments(t)[Len(Segments(t))]

\* the tag up to and including the '_' in front of its last segment
PrefixOf(t) == SubSeq(t, 1, Len(t) - Len(LastSegment(t)))

HasRelease(t) == Contains(LastSegment(t), "-")

VersionOf(t) == SplitN2(LastSegment(t), "-")[1]

ReleaseOf(t) == SplitN2(LastSegment(t), "-")[2]

\* n dot-separated runs of digits
NumericVersion(v, n) ==
    LET c == Split(v, ".") IN Len(c) = n /\ \A i \in 1..n : IsDigits(c[i])

LegacyVersion(v) == NumericVersion(v, 2)

SemanticVersion(v) == NumericVersion(v, 3)

PlainRelease(r) == IsDigits(r)

HotfixRelease(r) ==
    LET c == Split(r, ".") IN Len(c) = 2 /\ IsDigits(c[1]) /\ IsDigits(c[2])

\* env_... or service_env_... with env one of ENVS
GrammarPrefix(t) ==
    \/ Len(Segments(t)) = 2 /\ Segments(t)[1] \in EnvSet
    \/ Len(Segments(t)) = 3 /\ Segments(t)[2] \in EnvSet

GrammarRelease(t) ==
    ~HasRelease(t) \/ PlainRelease(ReleaseOf(t)) \/ HotfixRelease(ReleaseOf(t))

\* a tag with a release R or R.H: its counters
ReleaseCounter(t) == DigitsValue(Split(ReleaseOf(t), ".")[1])

HotfixCounter(t) ==
    IF HotfixRelease(ReleaseOf(t))
    THEN DigitsValue(Split(ReleaseOf(t), ".")[2]) ELSE 0

\* a tag of the grammar that carries a release
ReleasedGrammarTag(t) ==
    /\ GrammarPrefix(t)
    /\ LegacyVersion(VersionOf(t)) \/ SemanticVersion(VersionOf(t))
    /\ HasRelease(t)
    /\ PlainRelease(ReleaseOf(t)) \/ HotfixRelease(ReleaseOf(t))

----------------------------------------------------------------------------
(* Claims about IsTagValid.                                                *)

\* C1: IsTagValid accepts a tag of either dialect: with an environment of
\* ENVS and a well-formed (or absent) release, a tag whose version is the
\* 2-component legacy form or the 3-component semantic form is valid, and a
\* version of any other arity is invalid.
C1_BothDialectsAccepted ==
    (op = "IsTagValid" /\ GrammarPrefix(tag) /\ GrammarRelease(tag)) =>
        /\ (LegacyVersion(VersionOf(tag)) \/ SemanticVersion(VersionOf(tag)))
               => valid
        /\ Len(Split(VersionOf(tag), ".")) \notin {2, 3} => ~valid

\* C2: the release part of every tag IsTagValid accepts is a non-empty run
\* of digits, or two such runs separated by a literal dot; any other release
\* part is rejected.
C2_ReleaseShape ==
    (op = "IsTagValid" /\ valid /\ HasRelease(tag)) =>
        PlainRelease(ReleaseOf(tag)) \/ HotfixRelease(ReleaseOf(tag))

\* C3: IsTagValid accepts only strings of exactly two or exactly three
\* '_'-separated segments, and in those the environment segment is in ENVS.
C3_TwoOrThreeSegments ==
    (op = "IsTagValid" /\ valid) => GrammarPrefix(tag)

----------------------------------------------------------------------------
(* Claims about IncrementTag.                                              *)

\* C4: normal increment: for a tag prefix_version-R or prefix_version-R.H of
\* the grammar, IncrementTag(tag, false) is prefix_version-(R+1): release
\* plus one, hotfix dropped, prefix and version unchanged.
C4_NormalIncrement ==
    (op = "IncrementTag" /\ ~hotFix /\ ReleasedGrammarTag(tag)) =>
        newTag = PrefixOf(tag) \o VersionOf(tag) \o <<"-">>
                    \o Itoa(ReleaseCounter(tag) + 1)

\* C5: hotfix increment: for a tag prefix_version-R or prefix_version-R.H of
\* the grammar, IncrementTag(tag, true) is prefix_version-R.(H+1), with H
\* counted as 0 when absent: release, prefix and version unchanged.
C5_HotfixIncrement ==
    (op = "IncrementTag" /\ hotFix /\ ReleasedGrammarTag(tag)) =>
        newTag = PrefixOf(tag) \o VersionOf(tag) \o <<"-">>
                    \o Itoa(ReleaseCounter(tag)) \o <<".">>
                    \o Itoa(HotfixCounter(tag) + 1)

\* C6: IncrementTag returns the empty string, for both values of hotFix,
\* when the input is empty, fails IsTagValid, or is a bare tag without a
\* release segment.
C6_EmptyOnRejectedInput ==
    (op = "IncrementTag"
        /\ (tag = <<>> \/ ~IsTagValid(tag) \/ ~HasRelease(tag)))
        => newTag = <<>>

----------------------------------------------------------------------------
(* Claims about the selection loop of FindLastTagAndCommentInDir.          *)

\* the lines of the command's output, in scan order
LinesOf(out) ==
    IF TrimSpace(out) = <<>> THEN <<>> ELSE Split(TrimSpace(out), "\n")

\* the tag a line carries
LineTag(line) == SplitN2(TrimSpace(line), " ")[1]

ListedTags == [i \in 1..Len(LinesOf(stdout)) |-> LineTag(LinesOf(stdout)[i])]

\* a valid tag with a release R or R.H
ValidReleased(t) ==
    /\ IsTagValid(t)
    /\ HasRelease(t)
    /\ PlainRelease(ReleaseOf(t)) \/ HotfixRelease(ReleaseOf(t))

\* release number of a tag: hotfix stripped, a bare tag counted as 0
ReleaseNumber(t) ==
    IF ~HasRelease(t) THEN 0
    ELSE IF PlainRelease(ReleaseOf(t)) \/ HotfixRelease(ReleaseOf(t))
         THEN ReleaseCounter(t)
    ELSE -1

Selected == op = "FindLastTag" /\ ~cmdFailed

\* C7: selector maximality: on a non-empty list of lines whose tags are all
\* valid (and share a prefix), in any order, the selector returns a tag of
\* the list whose release number is the maximum over the list.
C7_SelectorMaximality ==
    (Selected /\ Len(ListedTags) > 0
        /\ \A i \in 1..Len(ListedTags) : IsTagValid(ListedTags[i])) =>
        /\ \E i \in 1..Len(ListedTags) : found.tag = ListedTags[i]
        /\ \A i \in 1..Len(ListedTags) :
               ReleaseNumber(found.tag) >= ReleaseNumber(ListedTags[i])

\* C8: bare-tag fallback: when the list holds at least one valid tag with a
\* release suffix (release 0 included), the selector does not return a bare
\* tag, whatever the order of the lines.
C8_BareTagOnlyAsFallback ==
    (Selected /\ \E i \in 1..Len(ListedTags) : ValidReleased(ListedTags[i]))
        => HasRelease(found.tag)

\* the lines whose release-suffixed tag has the maximal release number
MaximalLines ==
    {i \in 1..Len(ListedTags) :
        /\ ValidReleased(ListedTags[i])
        /\ \A j \in 1..Len(ListedTags) :
               ValidReleased(ListedTags[j]) =>
                   ReleaseCounter(ListedTags[j]) <= ReleaseCounter(ListedTags[i])}

\* C9: selector tie-break: when two or more release-suffixed tags have the
\* same maximal release number (hotfix stripped), the selector returns the
\* one that comes last in scan order.
C9_LastOfEqualWins ==
    (Selected /\ Cardinality(MaximalLines) >= 2) =>
        found.tag = ListedTags[CHOOSE i \in MaximalLines :
                                  \A j \in MaximalLines : j <= i]

\* the output with the lines whose tag fails IsTagValid removed
RECURSIVE KeepValid(_)
KeepValid(lines) ==
    IF Len(lines) = 0 THEN <<>>
    ELSE IF IsTagValid(LineTag(Head(lines)))
         THEN Head(lines) \o <<"\n">> \o KeepValid(Tail(lines))
    ELSE KeepValid(Tail(lines))

\* C10: lines whose tag fails IsTagValid are ignored without error: the
\* result equals the result on the output without those lines, and when no
\* line carries a valid tag (the empty output included) the result is the
\* empty tag and empty comment with a nil error.
C10_InvalidLinesIgnored ==
    Selected =>
        /\ found = FindLastTagAndCommentInDir(KeepValid(LinesOf(stdout)), FALSE)
        /\ ~found.err
        /\ (\A i \in 1..Len(ListedTags) : ~IsTagValid(ListedTags[i]))
               => found = NoFound

\* C10 witness: an output with an invalid line of higher release number than
\* the valid line that is selected
C10_Witness ==
    /\ Selected
    /\ found.tag # <<>>
    /\ \E i \in 1..Len(ListedTags) :
           /\ ~IsTagValid(ListedTags[i])
           /\ HasRelease(ListedTags[i])
           /\ PlainRelease(ReleaseOf(ListedTags[i]))
           /\ ReleaseCounter(ListedTags[i]) > ReleaseNumber(found.tag)

\* C10 witness of the empty case: only invalid lines, nothing selected
C10_WitnessNoValidLine ==
    /\ Selected
    /\ Len(ListedTags) > 0
    /\ \A i \in 1..Len(ListedTags) : ~IsTagValid(ListedTags[i])
    /\ found = NoFound

----------------------------------------------------------------------------
(* Semantic versions as the specification writes them (section 4):         *)
(*   version := ["v"] major "." minor "." patch ["-" prerelease]           *)
(* read off the string without ParseSemanticVersion.                       *)

WithoutV(s) == IF Len(s) > 0 /\ s[1] = "v" THEN SubSeq(s, 2, Len(s)) ELSE s

\* what is left after one leading v and everything from the first '-'
NumericCore(s) ==
    LET t == WithoutV(s)
        i == IndexOf(t, "-")
    IN IF i = 0 THEN t ELSE SubSeq(t, 1, i - 1)

ValidVersion(s) == SemanticVersion(NumericCore(s))

\* the i-th number of a valid version
ComponentOf(s, i) == DigitsValue(Split(NumericCore(s), ".")[i])

\* the text M.m.p
Dotted(M, m, p) == Itoa(M) \o <<".">> \o Itoa(m) \o <<".">> \o Itoa(p)

BumpKinds == {BumpMajor, BumpMinor, BumpPatch}

----------------------------------------------------------------------------
\* C11: for every valid version M.m.p, BumpSemanticVersion returns (M+1).0.0
\* for a major bump, M.(m+1).0 for a minor bump and M.m.(p+1) for a patch
\* bump.
C11_BumpArithmetic ==
    (op = "BumpSemanticVersion" /\ ValidVersion(args.version)
        /\ args.bumpType \in BumpKinds) =>
        LET M == ComponentOf(args.version, 1)
            m == ComponentOf(args.version, 2)
            p == ComponentOf(args.version, 3)
        IN /\ ~ret.err
           /\ args.bumpType = BumpMajor => ret.version = Dotted(M + 1, 0, 0)
           /\ args.bumpType = BumpMinor => ret.version = Dotted(M, m + 1, 0)
           /\ args.bumpType = BumpPatch => ret.version = Dotted(M, m, p + 1)

\* a minor bump of v1.9.1-a-1 carried into 1.10.0
C11_Witness ==
    /\ op = "BumpSemanticVersion"
    /\ args.version = <<"v", "1", ".", "9", ".", "1", "-", "a", "-", "1">>
    /\ args.bumpType = BumpMinor
    /\ ret = [version |-> <<"1", ".", "1", "0", ".", "0">>, err |-> FALSE]

----------------------------------------------------------------------------
\* a tag of the grammar, bare or released, whose version has three components
SemanticGrammarTag(t) ==
    GrammarPrefix(t) /\ SemanticVersion(VersionOf(t)) /\ GrammarRelease(t)

\* the bumped version, from the digits of v
Bumped(v, k) ==
    LET M == ComponentOf(v, 1)
        m == ComponentOf(v, 2)
        p == ComponentOf(v, 3)
    IN IF k = BumpMajor THEN Dotted(M + 1, 0, 0)
       ELSE IF k = BumpMinor THEN Dotted(M, m + 1, 0)
       ELSE Dotted(M, m, p + 1)

----------------------------------------------------------------------------
\* C13: for every valid version v, with or without prerelease, and every bump
\* kind k of major, minor, patch, CompareSemanticVersions(v,
\* BumpSemanticVersion(v, k)) is -1: a bump yields a strictly greater version.
C13_BumpMonotone ==
    (op = "BumpSemanticVersion" /\ ValidVersion(args.version)
        /\ args.bumpType \in BumpKinds) =>
        /\ ~ret.err
        /\ CompareSemanticVersions(args.version, ret.version)
               = [val |-> -1, err |-> FALSE]

\* 9.9.9-a-1 is below its patch bump 9.9.10, which it is not as a text
C13_Witness ==
    /\ op = "BumpSemanticVersion"
    /\ args.version = <<"9", ".", "9", ".", "9", "-", "a", "-", "1">>
    /\ args.bumpType = BumpPatch
    /\ ret.version = <<"9", ".", "9", ".", "1", "0">>
    /\ CompareSemanticVersions(args.version, ret.version).val = -1

----------------------------------------------------------------------------
\* C14: the result of a successful BumpSemanticVersion has no prerelease:
\* whatever the prerelease of the input and the bump kind, the returned text
\* is major.minor.patch with no '-' part.
C14_BumpDropsPrerelease ==
    (op = "BumpSemanticVersion" /\ ~ret.err) =>
        /\ ~Contains(ret.version, "-")
        /\ SemanticVersion(ret.version)

\* a version with the prerelease a-1 bumped to a plain release
C14_Witness ==
    /\ op = "BumpSemanticVersion"
    /\ args.version = <<"v", "1", ".", "0", ".", "1", "-", "a", "-", "1">>
    /\ args.bumpType = BumpMajor
    /\ ret = [version |-> <<"2", ".", "0", ".", "0">>, err |-> FALSE]

----------------------------------------------------------------------------
\* C15: BumpSemanticVersion returns an error and the empty string when the
\* version is not a valid semantic version or the bump kind is not one of
\* major, minor, patch; otherwise it returns a non-empty string and no error.
C15_BumpErrors ==
    op = "BumpSemanticVersion" =>
        IF ~ValidVersion(args.version) \/ args.bumpType \notin BumpKinds
        THEN ret = [version |-> <<>>, err |-> TRUE]
        ELSE ~ret.err /\ ret.version # <<>>

\* the same, for versions without a signed component
C15_BumpErrorsUnsigned ==
    (op = "BumpSemanticVersion" /\ ~Contains(args.version, "+")) =>
        IF ~ValidVersion(args.version) \/ args.bumpType \notin BumpKinds
        THEN ret = [version |-> <<>>, err |-> TRUE]
        ELSE ~ret.err /\ ret.version # <<>>

----------------------------------------------------------------------------
\* C16: BumpTagVersion returns an error and the empty string whenever the
\* source tag fails IsTagValid, whenever it is of the legacy 2-component
\* dialect, and whenever the bump of its version fails (the version has not
\* three numeric components, or the kind is not major, minor or patch).
C16_BumpTagErrors ==
    (/\ op = "BumpTagVersion"
     /\ \/ ~IsTagValid(args.tag)
        \/ LegacyVersion(VersionOf(args.tag))
        \/ ~SemanticVersion(VersionOf(args.tag))
        \/ args.bumpType \notin BumpKinds) =>
        ret = [tag |-> <<>>, err |-> TRUE]

\* a legacy tag of the grammar is not bumped
C16_Witness ==
    /\ op = "BumpTagVersion"
    /\ args.tag = stg6 \o <<"_", "1", ".", "2", "-", "1">>
    /\ GrammarPrefix(args.tag) /\ LegacyVersion(VersionOf(args.tag))
    /\ args.bumpType = BumpPatch
    /\ ret = [tag |-> <<>>, err |-> TRUE]

----------------------------------------------------------------------------
CanonicalNumber(c) == IsDigits(c) /\ (Len(c) = 1 \/ c[1] # "0")

\* the three components are canonical and no bare '-' ends the string
CanonicalVersion(s) ==
    LET t == WithoutV(s)
        core == NumericCore(s)
        c == Split(core, ".")
    IN /\ Len(c) = 3
       /\ \A i \in 1..3 : CanonicalNumber(c[i])
       /\ SubSeq(t, Len(core) + 1, Len(t)) # <<"-">>

----------------------------------------------------------------------------
\* C18: ParseSemanticVersion succeeds only when, after one leading v and
\* everything from the first '-' are stripped, exactly three dot-separated
\* non-empty runs of digits remain; in every other case (another arity, an
\* empty component, a component with a non-digit character) it returns an
\* error and no version.
C18_ParseRejects ==
    (op = "ParseSemanticVersion" /\ ~ValidVersion(args.version)) =>
        ret.sv = NoVersion

\* the same for strings without a '+', where the parser also accepts every
\* string of the grammar
C18_ParseUnsigned ==
    (op = "ParseSemanticVersion" /\ ~Contains(args.version, "+")) =>
        ret.sv.err = ~ValidVersion(args.version)

----------------------------------------------------------------------------
\* the place of a valid version in the numeric order of (major, minor, patch)
Weight(s) ==
    (ComponentOf(s, 1) * 1000 + ComponentOf(s, 2)) * 1000 + ComponentOf(s, 3)

Sign(n) == IF n < 0 THEN -1 ELSE IF n > 0 THEN 1 ELSE 0

ValidCompareInputs == {x \in CompareInputs : ValidVersion(x)}

\* the order laws of one comparison of two valid versions
OrderLaws(a, b, r) ==
    /\ ~r.err
    /\ r.val = Sign(Weight(a) - Weight(b))
    /\ CompareSemanticVersions(b, a) = [val |-> 0 - r.val, err |-> FALSE]
    /\ \A c \in ValidCompareInputs :
          (r.val <= 0 /\ CompareSemanticVersions(b, c).val <= 0)
              => CompareSemanticVersions(a, c).val <= 0
    /\ NumericCore(a) = NumericCore(b) => r.val = 0

\* C19: for all valid a, b CompareSemanticVersions returns the sign of the
\* numeric lexicographic comparison of (major, minor, patch), so that
\* Compare(a, b) = -Compare(b, a), the relation is transitive and versions
\* that differ only in prerelease compare equal; it returns an error when
\* either argument is not a valid version.
C19_CompareTotalOrder ==
    op = "CompareSemanticVersions" =>
        IF ValidVersion(args.v1) /\ ValidVersion(args.v2)
        THEN OrderLaws(args.v1, args.v2, ret)
        ELSE ret.err

\* the same for arguments without a signed component
C19_CompareUnsigned ==
    (op = "CompareSemanticVersions" /\ ~Contains(args.v1, "+")
        /\ ~Contains(args.v2, "+")) =>
        IF ValidVersion(args.v1) /\ ValidVersion(args.v2)
        THEN OrderLaws(args.v1, args.v2, ret)
        ELSE ret.err

----------------------------------------------------------------------------
\* C20: for every list of commit messages, the empty one included,
\* DetectBumpType returns major if some message has a breaking-change marker,
\* otherwise minor if some message has the feat or feature type, otherwise
\* patch; the result is always one of major, minor, patch.
C20_ClassifierPriority ==
    op = "DetectBumpType" =>
        LET commits == args.commits
            anyBreaking == \E i \in 1..Len(commits) : breakingPattern(commits[i])
            anyFeature == \E i \in 1..Len(commits) : featurePattern(commits[i])
        IN /\ ret.bumpType \in BumpKinds
           /\ ret.bumpType = IF anyBreaking THEN BumpMajor
                             ELSE IF anyFeature THEN BumpMinor
                             ELSE BumpPatch

\* a fix, a feature and a breaking change together are a major bump
C20_Witness ==
    /\ op = "DetectBumpType"
    /\ args.commits = << <<"f", "i", "x", ":", " ", "y">>,
                         <<"f", "e", "a", "t", ":", " ", "x">>,
                         <<"f", "e", "a", "t", "!", ":", " ", "x">> >>
    /\ ret.bumpType = BumpMajor

----------------------------------------------------------------------------
\* C21: every version returned by ParseSemanticVersion has a prerelease that
\* is empty or has neither a leading nor a trailing dot.
C21_PrereleaseNoEdgeDots ==
    (op = "ParseSemanticVersion" /\ ~ret.sv.err) =>
        LET pre == ret.sv.Prerelease IN
        pre = <<>> \/ (pre[1] # "." /\ pre[Len(pre)] # ".")

----------------------------------------------------------------------------
\* the environment segment of a tag: the one in front of the version segment
TagEnvOf(t) ==
    IF Len(Segments(t)) < 2 THEN <<>> ELSE Segments(t)[Len(Segments(t)) - 1]

\* C22: BumpTagVersion returns an error when the environment of the source
\* tag differs from the env argument: a successful result has the
\* environment of the source tag.
C22_BumpTagSameEnv ==
    (op = "BumpTagVersion" /\ ~ret.err) =>
        /\ TagEnvOf(args.tag) = args.env
        /\ TagEnvOf(ret.tag) = TagEnvOf(args.tag)

----------------------------------------------------------------------------
\* C23: in every run of bump-version, git tag -a and git push origin are
\* executed only if --preview is not set and the user answered y, and the
\* push only after the tag was created; with --preview the run ends with no
\* tag created or pushed.
C23_BumpVersionGuarded ==
    op = "bump-version" =>
        /\ \A i \in 1..Len(ret.cmds) :
              /\ ~args.preview
              /\ ret.answer = <<"y">>
              /\ ret.cmds[i].cmd = "push" =>
                    \E j \in 1..(i - 1) :
                        ret.cmds[j] = Executed("tag", ret.cmds[i].tag, FALSE)
        /\ args.preview => ret.cmds = <<>>

\* a run in which the tag was created and pushed
C23_Witness ==
    /\ op = "bump-version"
    /\ ret.pc = "exit"
    /\ ret.code = 0
    /\ ~args.preview
    /\ Len(ret.cmds) = 2
    /\ ret.cmds[2].cmd = "push"

\* a preview that ended after the new tag was computed
C23_WitnessPreview ==
    /\ op = "bump-version"
    /\ ret.pc = "exit"
    /\ args.preview
    /\ ret.newTag # <<>>
    /\ ret.cmds = <<>>

----------------------------------------------------------------------------
\* C24: in every run of add-tag that reaches git tag -a, --hot-fix is set if
\* and only if the current branch is a release branch, and the local HEAD
\* equals the head of origin/<branch>.
C24_HotFixIffReleaseBranch ==
    (op = "add-tag" /\ (ret.pc \in {"tag", "push"} \/ ret.cmds # <<>>)) =>
        /\ args.hotFix <=> IsReleaseBranch(ret.branch)
        /\ ret.sha # <<>>
        /\ ret.sha = ret.shaRemote

\* a hot fix tagged from the branch release_1.2
C24_Witness ==
    /\ op = "add-tag"
    /\ args.hotFix
    /\ ret.branch = <<"r", "e", "l", "e", "a", "s", "e", "_", "1", ".", "2">>
    /\ Len(ret.cmds) = 1
    /\ ret.cmds[1].cmd = "tag"

----------------------------------------------------------------------------
\* the tags a run has created with git tag -a
CreatedTags ==
    {ret.cmds[i].tag : i \in {j \in 1..Len(ret.cmds) :
                                 ret.cmds[j].cmd = "tag" /\ ret.cmds[j].ok}}

\* version-release or version-release.hotfix
ReleasedSemanticSegment(seg) ==
    LET parts == SplitN2(seg, "-") IN
    /\ Len(parts) = 2
    /\ SemanticVersion(parts[1])
    /\ (PlainRelease(parts[2]) \/ HotfixRelease(parts[2]))

\* C25: every tag that add-tag creates with --service S and without --from
\* has the form S_env_version-release[.hotfix], whatever tags exist; without
\* --service the created tag has no service segment.
C25_ServiceTagForm ==
    (op = "add-tag" /\ args.promoteFrom = <<>>) =>
        \A t \in CreatedTags :
            /\ ReleasedSemanticSegment(LastSegment(t))
            /\ IF args.service # <<>>
               THEN /\ Len(Segments(t)) = 3
                    /\ Segments(t)[1] = args.service
                    /\ Segments(t)[2] = args.environment
               ELSE /\ Len(Segments(t)) = 2
                    /\ Segments(t)[1] = args.environment

\* the same for runs without --service
C25_NoServiceTagForm ==
    (op = "add-tag" /\ args.promoteFrom = <<>> /\ args.service = <<>>) =>
        \A t \in CreatedTags :
            /\ ReleasedSemanticSegment(LastSegment(t))
            /\ Len(Segments(t)) = 2
            /\ Segments(t)[1] = args.environment

----------------------------------------------------------------------------
\* C26: the new tag that add-tag computes without --from (IncrementTag of the
\* Selector's result over the tags matching env_version*, or
\* TagPrefix(env, version, service)-0 when the Selector finds none) is not
\* one of the existing tags.
C26_NewTagIsFresh ==
    (op = "add-tag" /\ args.promoteFrom = <<>> /\ ret.newTag # <<>>) =>
        ret.newTag \notin ret.existing

\* the same for runs without --service and without --hot-fix
C26_PlainNewTagIsFresh ==
    (op = "add-tag" /\ args.promoteFrom = <<>> /\ ret.newTag # <<>>
        /\ args.service = <<>> /\ ~args.hotFix) =>
        ret.newTag \notin ret.existing

----------------------------------------------------------------------------
\* C27: for every string t and both values of hotFix, if IncrementTag(t,
\* hotFix) is non-empty then IsTagValid accepts it.
C27_IncrementClosed ==
    (op = "IncrementTag" /\ newTag # <<>>) => IsTagValid(newTag)

\* the same for tags whose release is R or R.H
C27_IncrementClosedOnGrammar ==
    (op = "IncrementTag" /\ newTag # <<>> /\ GrammarRelease(tag)) =>
        IsTagValid(newTag)

----------------------------------------------------------------------------
\* C28: when last-tag is applied to valid tags of one environment across
\* several versions, the returned tag has the greatest semantic version
\* among them (by CompareSemanticVersions) and, among the tags of that
\* version, the greatest release number.
C28_LastTagIsNewest ==
    (op = "last-tag" /\ ret.code = 0 /\ ret.existing # {}) =>
        /\ ret.lastTag \in ret.existing
        /\ \A u \in ret.existing :
              LET c == CompareSemanticVersions(VersionOf(u),
                                               VersionOf(ret.lastTag))
              IN /\ ~c.err
                 /\ c.val <= 0
                 /\ c.val = 0 => ReleaseNumber(u) <= ReleaseNumber(ret.lastTag)

\* the same for the release number alone, whatever the versions
C28_LastTagGreatestRelease ==
    (op = "last-tag" /\ ret.code = 0 /\ ret.existing # {}) =>
        /\ ret.lastTag \in ret.existing
        /\ \A u \in ret.existing :
              ReleaseNumber(u) <= ReleaseNumber(ret.lastTag)

----------------------------------------------------------------------------
\* the source tag with its environment segment replaced by env
Promoted(t, env) ==
    LET seg == Segments(t) IN
    IF Len(seg) = 3 THEN seg[1] \o <<"_">> \o env \o <<"_">> \o seg[3]
    ELSE env \o <<"_">> \o seg[2]

\* C29: for every valid source tag [service_]envA_version[-release[.hotfix]]
\* and every target environment envB, the tag that add-tag --from creates is
\* [service_]envB_version[-release[.hotfix]]: only the environment changes.
C29_PromotionChangesEnvOnly ==
    (op = "add-tag" /\ args.promoteFrom # <<>>
        /\ SemanticGrammarTag(args.promoteFrom) /\ ret.newTag # <<>>) =>
        ret.newTag = Promoted(args.promoteFrom, args.environment)

\* the same for source tags whose service name does not contain the name of
\* their environment
C29_PromotionPlainService ==
    (op = "add-tag" /\ args.promoteFrom # <<>>
        /\ SemanticGrammarTag(args.promoteFrom) /\ ret.newTag # <<>>
        /\ (Len(Segments(args.promoteFrom)) = 3 =>
               ~ContainsLiteral(Segments(args.promoteFrom)[1],
                                Segments(args.promoteFrom)[2]))) =>
        ret.newTag = Promoted(args.promoteFrom, args.environment)

----------------------------------------------------------------------------
\* the upper-case name of a bump kind
UpperName(k) ==
    IF k = BumpMajor THEN "MAJOR" ELSE IF k = BumpMinor THEN "MINOR" ELSE "PATCH"

\* C30: for all valid versions old and new, getBumpType(old, new) returns
\* MAJOR, MINOR or PATCH only if CompareSemanticVersions(old, new) = -1 and
\* none otherwise; and for every valid v and bump kind k,
\* getBumpType(v, BumpSemanticVersion(v, k)) is the upper-case name of k.
C30_BumpTypeAgreesWithOrder ==
    (op = "getBumpType" /\ ValidVersion(args.oldVersion)
        /\ ValidVersion(args.newVersion)) =>
        LET c == CompareSemanticVersions(args.oldVersion, args.newVersion) IN
        /\ ret.bumpType \in {"MAJOR", "MINOR", "PATCH", "none"}
        /\ ret.bumpType # "none" => c = [val |-> -1, err |-> FALSE]
        /\ c.val # -1 => ret.bumpType = "none"
        /\ \A k \in BumpKinds :
              args.newVersion = Bumped(args.oldVersion, k)
                  => ret.bumpType = UpperName(k)

\* the second half alone: the bump type of a version and its bump
C30_BumpTypeOfBump ==
    (op = "getBumpType" /\ ValidVersion(args.oldVersion)) =>
        \A k \in BumpKinds :
            args.newVersion = Bumped(args.oldVersion, k)
                => ret.bumpType = UpperName(k)

====
